---------------------------- MODULE Spec2Model ----------------------------
(***************************************************************************)
(* PeopleSwarm: the shopper simulation core.                               *)
(*   src/behavior.py     StoreZone, Agent (state machine, target choice,   *)
(*                       queue protocol, movement)                         *)
(*   src/agent_group.py  AgentGroup (leader / followers)                   *)
(*   src/main.py         PeopleSwarmEditor.update_loop (the tick driver)   *)
(*                                                                         *)
(* Encoding of the floats.  Lengths are integers in units of 100 pixels,   *)
(* times are integers in milliseconds, speeds are integers in length units *)
(* per second, attractiveness is in tenths, the random sensitivities are   *)
(* in tenths, weights and utilities are in thousandths, and scale is kept  *)
(* as its inverse (sim.scale_inv = 1 / scale).  Every comparison of the    *)
(* code is made on these integers without rounding, except where a comment *)
(* says so.                                                                *)
(*                                                                         *)
(* Steering.  _avoid_collisions and _update_heading blend unit vectors in  *)
(* floating point; the heading a step ends with is taken here as any of    *)
(* the four axis unit vectors, so every position the code can step to on   *)
(* the grid of step lengths is covered.  Each random draw of the code is   *)
(* an input of the call that consumes it.                                  *)
(*                                                                         *)
(* Spec explores five runs: a crowd of default agents around one or two    *)
(* checkout zones (update_loop), one shopper of every behaviour and budget *)
(* in a store of up to three product zones (update_loop), one AgentGroup   *)
(* (AgentGroup.update), one AgentGroup whose leader outruns its followers, *)
(* and the editor's own run in which spawn_agent constructs the agents.    *)
(* FactorySpec explores the calls of generate_agent_groups.  LiveSpec is   *)
(* update_loop under a timer that keeps firing (weak fairness of the tick) *)
(* for the crowd and for one shopper whose steps are longer than its       *)
(* arrival radius.                                                         *)
(***************************************************************************)
EXTENDS Integers, Sequences, FiniteSets, TLC

\* ----------------------------------------------------------------- bounds
\* agents created in one run of the crowd scenario
MaxAgents == 3
\* the capacities max_queue_length is drawn from: 1..MaxCap
MaxCap == 2
\* failed leave-the-shelf draws allowed to one dwell (the draw is repeated
\* every tick without limit in the code)
MaxDwellDraws == 1
\* agents stay inside the square 0..MaxCoord x 0..MaxCoord
MaxCoord == 2000
\* total_agents handed to generate_agent_groups: 0..MaxTotal
MaxTotal == 4

\* ------------------------------------------------------ program constants
None == "None"
\* None where a QPointF is expected (destination)
NoPoint == <<>>
real_speed == 1000
min_shopping_time == 5000
max_shopping_time == 30000
queue_spacing == 900
\* StoreZone.max_queue_length as StoreZone.__init__ sets it
DefaultMaxQueueLength == 5
DefaultDeltaTime == 33
LowThreshold == 13
MediumThreshold == 11

CustomerState == {"WALKING", "SHOPPING", "IN_QUEUE", "PAYING", "LEAVING", "FINISHED"}
BehaviorType == {"IMPULSIVE", "TARGETED", "EXPLORER", "FAMILY", "BUDGET"}
BudgetLevel == {"LOW", "MEDIUM", "HIGH"}

\* random.random() in [0, 1), in thousandths: a small and a large draw
RandomDraws == {0, 999}
\* the unit vectors the heading is taken from
Headings == {<<1, 0>>, <<0, 1>>, <<-1, 0>>, <<0, -1>>}

\* ----------------------------------------------------------------- zones
ProductZones == {"p1", "p2", "p3"}
CashZones == {"c1", "c2"}
\* StoreZone.attractiveness, in tenths: the zones {0.8, 1.5, 1.1}
attractiveness(z) ==
    CASE z = "p1" -> 8
      [] z = "p2" -> 15
      [] z = "p3" -> 11
      [] OTHER -> 10

VARIABLES
    agents,            \* the agents in creation order, a sequence of records
    queue_length,      \* StoreZone.queue_length of every checkout zone
    max_queue_length,  \* StoreZone.max_queue_length of every checkout zone
    center,            \* StoreZone.center of every zone
    store_zones,       \* the product zones handed to the constructors
    cash_zones,        \* the checkout zones handed to the constructors
    exit_points,       \* the exit points handed to the constructors
    sim,               \* the driver: its kind, delta_time, speed, who is spawned
    cursor,            \* tick pass: index of the next agent, 1 between passes
    promoted           \* agents that became PAYING in the running pass

vars == <<agents, queue_length, max_queue_length, center, store_zones,
          cash_zones, exit_points, sim, cursor, promoted>>

layout == <<max_queue_length, center, store_zones, cash_zones, exit_points, sim>>

\* -------------------------------------------------------------- geometry
\* the square of Agent.distance_to
Dist2(p, q) == (p[1] - q[1]) * (p[1] - q[1]) + (p[2] - q[2]) * (p[2] - q[2])

RECURSIVE SqrtSearch(_, _, _)
SqrtSearch(n, lo, hi) ==
    IF lo >= hi THEN lo
    ELSE LET mid == (lo + hi + 1) \div 2
         IN  IF mid * mid <= n THEN SqrtSearch(n, mid, hi)
             ELSE SqrtSearch(n, lo, mid - 1)

\* Agent.distance_to, rounded down to a whole length unit
distance_to(p, q) == SqrtSearch(Dist2(p, q), 0, 2 * MaxCoord + 2)

InBox(p) == p[1] >= 0 /\ p[1] <= MaxCoord /\ p[2] >= 0 /\ p[2] <= MaxCoord

\* AgentDimensions.get_dimensions
get_dimensions(behavior) ==
    IF behavior = "FAMILY" THEN [width |-> 1200, length |-> 1500]
    ELSE IF behavior \in {"IMPULSIVE", "TARGETED"} THEN [width |-> 450, length |-> 300]
    ELSE [width |-> 900, length |-> 600]

\* ------------------------------------------------------------- StoreZone
\* can_join_queue with <= in place of <: the test that would admit one agent
\* more than max_queue_length
can_join_queue_le(ql, z) == ql[z] <= max_queue_length[z]

\* join_queue without its capacity test
join_queue_unguarded(ql, z) ==
    [ql |-> [ql EXCEPT ![z] = @ + 1], ret |-> ql[z] + 1]

\* StoreZone.can_join_queue
can_join_queue(ql, z) == ql[z] < max_queue_length[z]

\* StoreZone.join_queue: the new counters and the returned slot index
join_queue(ql, z) ==
    IF can_join_queue(ql, z)
    THEN [ql |-> [ql EXCEPT ![z] = @ + 1], ret |-> ql[z] + 1]
    ELSE [ql |-> ql, ret |-> -1]

\* StoreZone.get_queue_position: center + (-spacing * pos, 0),
\* spacing = (queue_spacing + length) / scale pixels
get_queue_position(z, pos, dims) ==
    LET spacing == ((queue_spacing + dims.length) * sim.scale_inv) \div 100
    IN  <<center[z][1] - spacing * pos, center[z][2]>>

\* ------------------------------------------------------------ random draws
\* What one call consumes from the random generator:
\*   u       random.random() of the leave-the-shelf draw
\*   imp     per zone, the outcome of random.random() < impulse_prob
\*   jitter  per zone, the random.random() added to a weight
\*   rk      the roulette draw r = random.uniform(0, total): rk = 0 is r = 0,
\*           rk = k is r = the sum of the first k weights; for random.choice
\*           the index drawn
\*   h       the heading the steering ends with
NoDraw ==
    [u |-> 0, imp |-> [z \in ProductZones |-> FALSE],
     jitter |-> [z \in ProductZones |-> 0], rk |-> 1, h |-> <<1, 0>>]

\* ------------------------------------------------------------------ Agent
\* Agent._zones_to_right: cross = entry_heading.x * vec.y - entry_heading.y * vec.x
\* with entry_heading = (1, 0)
zones_to_right(ag, zones) ==
    SelectSeq(zones, LAMBDA z : 1 * (center[z][2] - ag.position[2])
                                - 0 * (center[z][1] - ag.position[1]) < 0)

Max(a, b) == IF a >= b THEN a ELSE b
Min(a, b) == IF a <= b THEN a ELSE b

\* Agent._utility, in thousandths (cost_sensitivity / max(attractiveness, 0.1)
\* rounded down)
utility(ag, z) ==
    ag.reward_sensitivity * attractiveness(z) * 10
    + ag.anticipatory_emotion_weight * ag.imagery_vividness * 10
    - (ag.cost_sensitivity * 1000) \div Max(attractiveness(z), 1)

\* the weight _weighted_choice gives a zone, in thousandths
\* (TARGETED: 1 / (1 + dist) rounded up, it is never 0 in the code)
weight(ag, z, rnd) ==
    LET w == CASE ag.behavior = "EXPLORER" -> attractiveness(z) * 100
               [] ag.behavior = "TARGETED" ->
                      LET dist == distance_to(ag.position, center[z])
                      IN  (1000 + dist) \div (1 + dist)
               [] ag.behavior = "BUDGET" -> Max(0, utility(ag, z))
               [] ag.behavior = "IMPULSIVE" ->
                      (IF rnd.imp[z] THEN utility(ag, z) ELSE 1000) + rnd.jitter[z]
               [] OTHER -> 500 + (rnd.jitter[z] * 500) \div 1000
    IN  Max(w, 0)

RECURSIVE SumSeq(_)
SumSeq(s) == IF s = <<>> THEN 0 ELSE Head(s) + SumSeq(Tail(s))

\* the loop "r -= w; if r <= 0: return z", and zones[-1] after it
RECURSIVE roulette(_, _, _)
roulette(zones, weights, r) ==
    IF Len(zones) = 1 THEN Head(zones)
    ELSE IF r - Head(weights) <= 0 THEN Head(zones)
    ELSE roulette(Tail(zones), Tail(weights), r - Head(weights))

\* Agent._weighted_choice
weighted_choice(ag, zones, rnd) ==
    LET weights == [i \in 1..Len(zones) |-> weight(ag, zones[i], rnd)]
        total == SumSeq(weights)
        r == IF rnd.rk = 0 THEN 0
             ELSE SumSeq(SubSeq(weights, 1, Min(rnd.rk, Len(zones))))
    IN  IF total <= 0 THEN zones[((rnd.rk) % Len(zones)) + 1]
        ELSE roulette(zones, weights, r)

\* list.remove: the first occurrence
RECURSIVE RemoveFirst(_, _)
RemoveFirst(s, x) ==
    IF s = <<>> THEN <<>>
    ELSE IF Head(s) = x THEN Tail(s)
    ELSE <<Head(s)>> \o RemoveFirst(Tail(s), x)

\* _choose_next_target without its budget filter
budget_filter_off(ag, zones) == zones

\* the budget filter with the two thresholds exchanged
budget_filter_swapped(ag, zones) ==
    LET low == SelectSeq(zones, LAMBDA z : attractiveness(z) >= MediumThreshold)
        med == SelectSeq(zones, LAMBDA z : attractiveness(z) >= LowThreshold)
    IN  IF ag.budget = "LOW" THEN (IF low # <<>> THEN low ELSE zones)
        ELSE IF ag.budget = "MEDIUM" THEN (IF med # <<>> THEN med ELSE zones)
        ELSE zones

\* the budget filter of _choose_next_target
budget_filter(ag, zones) ==
    LET low == SelectSeq(zones, LAMBDA z : attractiveness(z) >= LowThreshold)
        med == SelectSeq(zones, LAMBDA z : attractiveness(z) >= MediumThreshold)
    IN  IF ag.budget = "LOW" THEN (IF low # <<>> THEN low ELSE zones)
        ELSE IF ag.budget = "MEDIUM" THEN (IF med # <<>> THEN med ELSE zones)
        ELSE zones

\* the right-hand rule of the first selection
first_move_zones(ag, zones) ==
    IF ag.first_move
    THEN LET rz == zones_to_right(ag, zones) IN IF rz # <<>> THEN rz ELSE zones
    ELSE zones

\* the candidate list _weighted_choice is called with
candidates(ag) == budget_filter(ag, first_move_zones(ag, ag.unvisited_zones))

\* the key of min() without queue_length: the nearer zone
cash_nearer(ag, ql, a, b) ==
    Dist2(ag.position, center[a]) < Dist2(ag.position, center[b])

\* the key of min(available_cash, key = (queue_length, distance)), compared
cash_less(ag, ql, a, b) ==
    \/ ql[a] < ql[b]
    \/ /\ ql[a] = ql[b]
       /\ Dist2(ag.position, center[a]) < Dist2(ag.position, center[b])

\* min(): the first element with the least key
RECURSIVE min_cash(_, _, _, _)
min_cash(ag, ql, s, best) ==
    IF s = <<>> THEN best
    ELSE min_cash(ag, ql, Tail(s),
                  IF cash_less(ag, ql, Head(s), best) THEN Head(s) ELSE best)

\* the checkout zone _choose_next_target takes: min over the zones with a
\* free slot of (queue_length, distance); None when no zone has a free slot
choose_cash(ag, ql) ==
    LET available_cash == SelectSeq(ag.cash_zones, LAMBDA cz : can_join_queue(ql, cz))
    IN  IF available_cash = <<>> THEN None
        ELSE min_cash(ag, ql, Tail(available_cash), Head(available_cash))

RECURSIVE min_exit(_, _, _)
min_exit(ag, s, best) ==
    IF s = <<>> THEN best
    ELSE min_exit(ag, Tail(s),
                  IF Dist2(ag.position, Head(s)) < Dist2(ag.position, best)
                  THEN Head(s) ELSE best)

\* the first exit of the list in place of the nearest
first_exit(ag) == Head(exit_points)

\* the exit _choose_next_target takes when LEAVING: min(exit_points, key = distance)
nearest_exit(ag) == min_exit(ag, Tail(exit_points), Head(exit_points))

\* the claim without the test "if self.queue_position > 0"
claim_slot_unchecked(ag, ql, cash) ==
    LET j == join_queue(ql, cash)
    IN  [ag |-> [ag EXCEPT !.current_cash_zone = cash, !.queue_position = j.ret,
                           !.destination = get_queue_position(cash, j.ret,
                                                              get_dimensions(ag.behavior)),
                           !.state = "IN_QUEUE",
                           !.claims = @ + 1],
         ql |-> j.ql, done |-> TRUE]

\* the branch "no unvisited zones, checkout zones exist, one has a free slot"
claim_slot(ag, ql, cash) ==
    LET j == join_queue(ql, cash)
        a1 == [ag EXCEPT !.current_cash_zone = cash, !.queue_position = j.ret]
    IN  IF j.ret > 0
        THEN [ag |-> [a1 EXCEPT
                        !.destination = get_queue_position(cash, j.ret,
                                                           get_dimensions(ag.behavior)),
                        !.state = "IN_QUEUE",
                        !.claims = @ + 1],
              ql |-> j.ql, done |-> TRUE]
        ELSE [ag |-> a1, ql |-> j.ql, done |-> FALSE]

\* visit_next without unvisited_zones.remove(z)
visit_next_keep(ag, rnd) ==
    LET z == weighted_choice(ag, candidates(ag), rnd)
    IN  [ag EXCEPT !.first_move = FALSE,
                   !.destination = center[z],
                   !.visited_zones = Append(@, z),
                   !.state = "WALKING",
                   !.selected = z]

\* visit_next without "self._first_move = False"
visit_next_first_again(ag, rnd) ==
    LET z == weighted_choice(ag, candidates(ag), rnd)
    IN  [ag EXCEPT !.destination = center[z],
                   !.visited_zones = Append(@, z),
                   !.unvisited_zones = RemoveFirst(@, z),
                   !.state = "WALKING",
                   !.selected = z]

\* the branch "unvisited zones remain"
visit_next(ag, rnd) ==
    LET z == weighted_choice(ag, candidates(ag), rnd)
    IN  [ag EXCEPT !.first_move = FALSE,
                   !.destination = center[z],
                   !.visited_zones = Append(@, z),
                   !.unvisited_zones = RemoveFirst(@, z),
                   !.state = "WALKING",
                   !.selected = z]

\* the last two lines of _choose_next_target
give_up(ag) == [ag EXCEPT !.state = "FINISHED", !.destination = NoPoint]

\* Agent._choose_next_target: the agent and the queue counters after it
choose_next_target(ag, ql, rnd) ==
    IF ag.state = "LEAVING"
    THEN IF exit_points = <<>>
         THEN [ag |-> [ag EXCEPT !.raised = TRUE], ql |-> ql]
         ELSE [ag |-> [ag EXCEPT !.destination = nearest_exit(ag)], ql |-> ql]
    ELSE
      LET cash == IF ag.unvisited_zones = <<>> /\ ag.cash_zones # <<>>
                  THEN choose_cash(ag, ql) ELSE None
          c == IF cash # None THEN claim_slot(ag, ql, cash)
               ELSE [ag |-> ag, ql |-> ql, done |-> FALSE]
      IN  IF c.done THEN [ag |-> c.ag, ql |-> c.ql]
          ELSE IF c.ag.unvisited_zones # <<>>
               THEN [ag |-> visit_next(c.ag, rnd), ql |-> c.ql]
               ELSE [ag |-> give_up(c.ag), ql |-> c.ql]

\* Agent.__init__ up to its last line (the first _choose_next_target): speed
\* is the speed argument, svc the service time drawn (random.uniform(30, 120)),
\* sens the sensitivities drawn (random.uniform(0.2, 1.0), in tenths)
new_agent(start_pos, behavior, budget, speed, svc, sens, gid, role) ==
    [position |-> start_pos,
     speed |-> IF behavior = "FAMILY" THEN (speed * 7) \div 10 ELSE speed,
     behavior |-> behavior,
     budget |-> budget,
     unvisited_zones |-> store_zones,
     visited_zones |-> <<>>,
     cash_zones |-> cash_zones,
     state |-> "WALKING",
     destination |-> NoPoint,
     shopping_time |-> 0,
     payment_time |-> 0,
     service_time |-> svc,
     current_cash_zone |-> None,
     \* 0 stands for None
     queue_position |-> 0,
     reward_sensitivity |-> sens[1],
     cost_sensitivity |-> sens[2],
     imagery_vividness |-> 2,
     anticipatory_emotion_weight |-> 2,
     first_move |-> TRUE,
     group_id |-> gid,
     role |-> role,
     \* set by AgentGroup.__init__ only
     group_type |-> None,
     raised |-> FALSE,
     \* history of the run, not fields of the class
     claims |-> 0,
     releases |-> 0,
     dwells |-> 0,
     draws |-> 0,
     selected |-> None,
     paid_at |-> NoPoint,
     ticket |-> 0]

\* a QPointF is false when it is the null point (0, 0); None is false
Truthy(p) == p # NoPoint /\ p # <<0, 0>>

\* speed * delta_time, the distance the arrival tests compare with
reach(ag, dt) == (ag.speed * dt) \div 1000

\* real_speed * scale * speed * delta_time, the length of one walking step
step_length(ag, dt) == (real_speed * ag.speed * dt) \div (1000 * sim.scale_inv)

\* the agents of `others` waiting at ag's checkout zone, in the order of the
\* list: the queue of move_towards_target before it is sorted
waiting(ags, others, z) ==
    SelectSeq(others, LAMBDA j : ags[j].current_cash_zone = z /\ ags[j].state = "IN_QUEUE")

\* queue.sort(key = queue_position) is stable, so queue[0] is the first agent
\* of the list that holds the least slot index
RECURSIVE queue_head(_, _, _)
queue_head(ags, q, best) ==
    IF q = <<>> THEN best
    ELSE queue_head(ags, Tail(q),
                    IF ags[Head(q)].queue_position < ags[best].queue_position
                    THEN Head(q) ELSE best)

\* the head-of-queue test of an agent that is never the head
is_head_never(ags, i, others) == FALSE

\* "queue and queue[0] == self"
is_head(ags, i, others) ==
    LET q == waiting(ags, others, ags[i].current_cash_zone)
    IN  q # <<>> /\ queue_head(ags, Tail(q), Head(q)) = i

\* the SHOPPING branch without "if self.shopping_time >= self.min_shopping_time"
tick_shopping_early(ag, ql, dt, rnd) ==
    LET a1 == [ag EXCEPT !.shopping_time = @ + dt]
    IN  IF rnd.u * (max_shopping_time - min_shopping_time) < dt * 1000
        THEN choose_next_target([a1 EXCEPT !.shopping_time = 0, !.draws = 0], ql, rnd)
        ELSE [ag |-> [a1 EXCEPT !.draws = @ + 1], ql |-> ql]

\* the SHOPPING branch of move_towards_target
tick_shopping(ag, ql, dt, rnd) ==
    LET a1 == [ag EXCEPT !.shopping_time = @ + dt]
    IN  IF a1.shopping_time >= min_shopping_time
        THEN IF rnd.u * (max_shopping_time - min_shopping_time) < dt * 1000
             THEN choose_next_target([a1 EXCEPT !.shopping_time = 0, !.draws = 0], ql, rnd)
             ELSE [ag |-> [a1 EXCEPT !.draws = @ + 1], ql |-> ql]
        ELSE [ag |-> a1, ql |-> ql]

\* the PAYING branch of an agent that goes on to its queue slot while it pays
tick_paying_moving(ag, ql, dt, rnd) ==
    LET a1 == [ag EXCEPT !.payment_time = @ + dt]
    IN  IF a1.payment_time >= a1.service_time
        THEN LET z == a1.current_cash_zone
                 a2 == [a1 EXCEPT !.payment_time = 0, !.state = "LEAVING",
                                  !.paid_at = a1.position]
                 a3 == IF z # None
                       THEN [a2 EXCEPT !.current_cash_zone = None, !.releases = @ + 1]
                       ELSE a2
                 q3 == IF z # None THEN [ql EXCEPT ![z] = @ - 1] ELSE ql
             IN  choose_next_target(a3, q3, rnd)
        ELSE [ag |-> [a1 EXCEPT !.position = IF Truthy(a1.destination)
                                             THEN a1.destination ELSE @],
              ql |-> ql]

\* the PAYING branch without "self.current_cash_zone.queue_length -= 1"
tick_paying_keep_slot(ag, ql, dt, rnd) ==
    LET a1 == [ag EXCEPT !.payment_time = @ + dt]
    IN  IF a1.payment_time >= a1.service_time
        THEN choose_next_target([a1 EXCEPT !.payment_time = 0, !.state = "LEAVING",
                                           !.paid_at = a1.position,
                                           !.current_cash_zone = None,
                                           !.releases = @ + 1], ql, rnd)
        ELSE [ag |-> a1, ql |-> ql]

\* the PAYING branch without "self.current_cash_zone = None"
tick_paying_keep_zone(ag, ql, dt, rnd) ==
    LET a1 == [ag EXCEPT !.payment_time = @ + dt]
    IN  IF a1.payment_time >= a1.service_time
        THEN choose_next_target([a1 EXCEPT !.payment_time = 0, !.state = "LEAVING",
                                           !.paid_at = a1.position,
                                           !.releases = @ + 1],
                                [ql EXCEPT ![a1.current_cash_zone] = @ - 1], rnd)
        ELSE [ag |-> a1, ql |-> ql]

\* the PAYING branch
tick_paying(ag, ql, dt, rnd) ==
    LET a1 == [ag EXCEPT !.payment_time = @ + dt]
    IN  IF a1.payment_time >= a1.service_time
        THEN LET z == a1.current_cash_zone
                 a2 == [a1 EXCEPT !.payment_time = 0, !.state = "LEAVING",
                                  !.paid_at = a1.position]
                 a3 == IF z # None
                       THEN [a2 EXCEPT !.current_cash_zone = None, !.releases = @ + 1]
                       ELSE a2
                 q3 == IF z # None THEN [ql EXCEPT ![z] = @ - 1] ELSE ql
             IN  choose_next_target(a3, q3, rnd)
        ELSE [ag |-> a1, ql |-> ql]

\* the IN_QUEUE branch: the head starts paying, the others walk to their slot
tick_in_queue(ags, ql, i, others, dt, rnd) ==
    LET ag == ags[i]
    IN  IF ag.current_cash_zone = None THEN ag
        ELSE IF is_head(ags, i, others) THEN [ag EXCEPT !.state = "PAYING"]
        ELSE IF ag.queue_position # 0
        THEN LET target == get_queue_position(ag.current_cash_zone, ag.queue_position,
                                              get_dimensions(ag.behavior))
                 r == reach(ag, dt)
             IN  IF Dist2(ag.position, target) > r * r
                 THEN [ag EXCEPT !.position = <<@[1] + rnd.h[1] * r, @[2] + rnd.h[2] * r>>]
                 ELSE ag
        ELSE ag

\* "Достигли цели?": the agent is put on its destination
tick_arrive(ag, ql, rnd) ==
    LET a1 == [ag EXCEPT !.position = ag.destination]
    IN  IF a1.state = "WALKING" /\ a1.cash_zones = <<>>
             /\ \E k \in 1..Len(exit_points) : exit_points[k] = a1.destination
        THEN [ag |-> [a1 EXCEPT !.state = "FINISHED"], ql |-> ql]
        ELSE IF a1.state = "WALKING" /\ a1.cash_zones # <<>>
        THEN [ag |-> [a1 EXCEPT !.state = "SHOPPING", !.dwells = @ + 1], ql |-> ql]
        ELSE IF a1.state = "LEAVING"
        THEN [ag |-> IF \E k \in 1..Len(exit_points) : exit_points[k] = a1.destination
                     THEN [a1 EXCEPT !.state = "FINISHED"] ELSE a1,
              ql |-> ql]
        ELSE choose_next_target(a1, ql, rnd)

\* the last branch: one step along the heading
tick_step(ag, dt, rnd) ==
    LET s == step_length(ag, dt)
    IN  [ag EXCEPT !.position = <<@[1] + rnd.h[1] * s, @[2] + rnd.h[2] * s>>]

\* WALKING and LEAVING
tick_walking(ag, ql, dt, rnd) ==
    LET r == reach(ag, dt)
    IN  IF Truthy(ag.destination) /\ Dist2(ag.position, ag.destination) <= r * r
        THEN tick_arrive(ag, ql, rnd)
        ELSE IF Truthy(ag.destination)
        THEN [ag |-> tick_step(ag, dt, rnd), ql |-> ql]
        ELSE [ag |-> ag, ql |-> ql]

\* move_towards_target without its early return
finished_never(ag) == FALSE

\* the early return of move_towards_target
finished(ag) == ag.state = "FINISHED"

\* Agent.move_towards_target(others, delta_time) of agent i: the agent and
\* the queue counters after the call.  others is a sequence of indices.
move_towards_target(ags, ql, i, others, dt, rnd) ==
    LET ag == ags[i]
    IN  IF finished(ag) THEN [ag |-> ag, ql |-> ql]
        ELSE IF ag.state = "SHOPPING" THEN tick_shopping(ag, ql, dt, rnd)
        ELSE IF ag.state = "PAYING" THEN tick_paying(ag, ql, dt, rnd)
        ELSE IF ag.state = "IN_QUEUE"
        THEN [ag |-> tick_in_queue(ags, ql, i, others, dt, rnd), ql |-> ql]
        ELSE tick_walking(ag, ql, dt, rnd)

\* the number of join_queue calls that returned a slot so far
total_claims(ags) == SumSeq([k \in 1..Len(ags) |-> ags[k].claims])

\* history: the agent that has just claimed a slot is given the number of its
\* claim in the order of all claims of the run
stamp(ags, old_claims, new) ==
    IF new.claims > old_claims
    THEN [new EXCEPT !.ticket = total_claims(ags) + 1]
    ELSE new

\* ------------------------------------------------------------- AgentGroup
\* AgentType.SIZES
SIZES(group_type) ==
    CASE group_type = "INDIVIDUAL" -> 1
      [] group_type = "PAIR" -> 2
      [] group_type = "FAMILY" -> 3
      [] OTHER -> 1

GroupTypes == {"INDIVIDUAL", "PAIR", "FAMILY"}

\* a behaviour drawn among all five whatever the group type
group_behaviors_free(group_type) ==
    {"IMPULSIVE", "TARGETED", "EXPLORER", "BUDGET", "FAMILY"}

\* the behaviours AgentGroup.__init__ draws from
group_behaviors(group_type) ==
    IF group_type = "INDIVIDUAL"
    THEN {"IMPULSIVE", "TARGETED", "EXPLORER", "BUDGET"}
    ELSE {"FAMILY"}

\* a follower put on its predecessor whatever the distance
follow_snap(cur, prev, speed) == prev

\* one follower of AgentGroup.update: a step of min(self.speed, distance)
\* towards prev (rounded to whole length units when it is not along an axis)
follow(cur, prev, speed) ==
    LET d2 == Dist2(cur, prev)
    IN  IF d2 > 0
        THEN IF d2 <= speed * speed THEN prev
             ELSE LET distance == distance_to(cur, prev)
                  IN  <<cur[1] + ((prev[1] - cur[1]) * speed) \div distance,
                        cur[2] + ((prev[2] - cur[2]) * speed) \div distance>>
        ELSE prev

\* the followers' loop of AgentGroup.update over the members m[k..]
RECURSIVE follow_chain(_, _, _, _)
follow_chain(ags, m, k, speed) ==
    IF k > Len(m) THEN ags
    ELSE follow_chain(
             [ags EXCEPT ![m[k]].position = follow(@, ags[m[k - 1]].position, speed)],
             m, k + 1, speed)

\* the members of the group of agent i, in creation order
members(ags, i) ==
    SelectSeq([k \in 1..Len(ags) |-> k], LAMBDA k : ags[k].group_id = ags[i].group_id)

\* AgentGroup.update of the group led by agent i
group_update(ags, ql, i, rnd) ==
    LET m == members(ags, i)
        r == move_towards_target(ags, ql, i, m, DefaultDeltaTime, rnd)
    IN  [agents |-> follow_chain([ags EXCEPT ![i] = stamp(ags, ags[i].claims, r.ag)],
                                 m, 2, sim.speed),
         ql |-> r.ql]

\* ----------------------------------------------------------- random draws
\* the sensitivities are read by BUDGET and IMPULSIVE agents only
SensFor(behavior) ==
    IF behavior \in {"BUDGET", "IMPULSIVE"} THEN sim.sens ELSE {<<2, 2>>}

ZoneSet(zones) == {zones[k] : k \in 1..Len(zones)}

\* the draws a target selection of ag can consume
Draws(ag, us, hs) ==
    LET zs == ZoneSet(ag.unvisited_zones)
        ims == IF ag.behavior = "IMPULSIVE"
               THEN {f \in [ProductZones -> BOOLEAN] : \A z \in ProductZones \ zs : ~f[z]}
               ELSE {[z \in ProductZones |-> FALSE]}
        jis == IF ag.behavior \in {"IMPULSIVE", "FAMILY"}
               THEN {f \in [ProductZones -> RandomDraws] :
                        \A z \in ProductZones \ zs : f[z] = 0}
               ELSE {[z \in ProductZones |-> 0]}
        rks == IF zs = {} THEN {1} ELSE 0..Len(ag.unvisited_zones)
    IN  {[u |-> u, imp |-> im, jitter |-> ji, rk |-> rk, h |-> h] :
            u \in us, im \in ims, ji \in jis, rk \in rks, h \in hs}

\* the draws one move_towards_target of ag can consume
TickDraws(ag) ==
    CASE ag.state = "SHOPPING" -> Draws(ag, RandomDraws, {<<1, 0>>})
      [] ag.state = "WALKING" -> Draws(ag, {0}, Headings)
      [] ag.state \in {"IN_QUEUE", "LEAVING"} ->
             Draws([ag EXCEPT !.unvisited_zones = <<>>], {0}, Headings)
      [] OTHER -> {NoDraw}

\* the draws the constructor can consume
CtorDraws(ag) == Draws(ag, {0}, {<<1, 0>>})

\* ---------------------------------------------------------------- driver
AllAgents(ags) == [k \in 1..Len(ags) |-> k]

\* the bounds of the model on one call's result
Bounded(ag) == InBox(ag.position) /\ ag.draws <= MaxDwellDraws

NextCursor(n, i) == IF i >= n THEN 1 ELSE i + 1

Promoted(old, new, i) ==
    IF old.state = "IN_QUEUE" /\ new.state = "PAYING" THEN {i} ELSE {}

\* an exception raised by a call is not caught by update_loop or by
\* AgentGroup.update: the run ends with it
Running == \A k \in 1..Len(agents) : ~agents[k].raised

\* a caller constructs an agent: Agent(start_pos, store_zones, cash_zones, exit_points, ...)
SpawnAgent ==
    /\ sim.driver = "update_loop"
    /\ sim.scenario # "spawned"
    /\ Running
    /\ cursor = 1
    /\ Len(agents) < sim.max_agents
    /\ \E kind \in sim.kinds, svc \in sim.service_times :
         \E sens \in SensFor(kind[1]) :
           LET a0 == new_agent(sim.start_pos, kind[1], kind[2], sim.speed, svc, sens,
                               Len(agents) + 1, 0)
           IN  \E rnd \in CtorDraws(a0) :
                 LET r == choose_next_target(a0, queue_length, rnd)
                 IN  /\ agents' = Append(agents, stamp(agents, 0, r.ag))
                     /\ queue_length' = r.ql
    /\ UNCHANGED <<layout, cursor, promoted>>

\* PeopleSwarmEditor.spawn_agent, one round of its loop: a StoreZone is built
\* anew from every drawn zone, and the agent is constructed with these objects.
\* cash_zones[k] is the object built from the drawn checkout lane at the k-th
\* call; a product zone carries no state, its objects are not told apart.
spawn_agent ==
    /\ sim.driver = "update_loop"
    /\ sim.scenario = "spawned"
    /\ Running
    /\ cursor = 1
    /\ Len(agents) < sim.max_agents
    /\ exit_points # <<>>
    /\ store_zones # <<>> /\ cash_zones # <<>>
    /\ \E kind \in sim.kinds, svc \in sim.service_times :
         \E sens \in SensFor(kind[1]) :
           LET a0 == [new_agent(sim.start_pos, kind[1], kind[2], sim.speed, svc, sens,
                                Len(agents) + 1, 0)
                         EXCEPT !.cash_zones = <<cash_zones[Len(agents) + 1]>>]
           IN  \E rnd \in CtorDraws(a0) :
                 LET r == choose_next_target(a0, queue_length, rnd)
                 IN  /\ agents' = Append(agents, stamp(agents, 0, r.ag))
                     /\ queue_length' = r.ql
    /\ UNCHANGED <<layout, cursor, promoted>>

\* one iteration of the loop of update_loop: move_towards_target(self.agents, delta_time)
Tick ==
    /\ sim.driver = "update_loop"
    /\ Running
    /\ cursor \in 1..Len(agents)
    /\ \E rnd \in TickDraws(agents[cursor]) :
         LET r == move_towards_target(agents, queue_length, cursor, AllAgents(agents),
                                      sim.delta_time, rnd)
         IN  /\ Bounded(r.ag)
             /\ agents' = [agents EXCEPT
                              ![cursor] = stamp(agents, agents[cursor].claims, r.ag)]
             /\ queue_length' = r.ql
             /\ promoted' = (IF cursor = 1 THEN {} ELSE promoted)
                            \cup Promoted(agents[cursor], r.ag, cursor)
    /\ cursor' = NextCursor(Len(agents), cursor)
    /\ UNCHANGED layout

\* the constructors of one AgentGroup, member by member
RECURSIVE group_members(_, _, _, _, _, _, _, _, _)
group_members(ags, ql, group_type, size, role, behavior, budget, gid, d) ==
    IF role >= size THEN [agents |-> ags, ql |-> ql]
    ELSE LET a0 == new_agent(sim.start_pos, behavior, budget, sim.speed,
                             d[role + 1].svc, d[role + 1].sens, gid, role)
             r == choose_next_target(a0, ql, d[role + 1].rnd)
             agent == [r.ag EXCEPT !.group_type = group_type]
         IN  group_members(Append(ags, stamp(ags, 0, agent)), r.ql, group_type, size,
                           role + 1, behavior, budget, gid, d)

\* AgentGroup(group_type, start_pos, target_zones, cash_zones, exit_points, scale, speed)
SpawnGroup ==
    /\ sim.driver = "group_update"
    /\ Running
    /\ cursor = 1
    /\ Cardinality({k \in 1..Len(agents) : agents[k].role = 0}) < sim.max_groups
    /\ \E group_type \in GroupTypes :
         /\ Len(agents) + SIZES(group_type) <= sim.max_agents
         /\ \E behavior \in group_behaviors(group_type), budget \in BudgetLevel :
              LET a0 == new_agent(sim.start_pos, behavior, budget, sim.speed,
                                  30000, <<2, 2>>, 0, 0)
                  D == [svc : sim.service_times, sens : SensFor(behavior),
                        rnd : CtorDraws(a0)]
              IN  \E d \in [1..SIZES(group_type) -> D] :
                    LET r == group_members(agents, queue_length, group_type,
                                           SIZES(group_type), 0,
                                           behavior, budget, Len(agents) + 1, d)
                    IN  /\ agents' = r.agents
                        /\ queue_length' = r.ql
    /\ UNCHANGED <<layout, cursor, promoted>>

\* one frame's AgentGroup.update of the group whose leader the cursor is on
GroupUpdate ==
    /\ sim.driver = "group_update"
    /\ Running
    /\ cursor \in 1..Len(agents)
    /\ \E rnd \in TickDraws(agents[cursor]) :
         LET r == group_update(agents, queue_length, cursor, rnd)
             n == Len(members(agents, cursor))
         IN  /\ \A k \in 1..Len(agents) : Bounded(r.agents[k])
             /\ agents' = r.agents
             /\ queue_length' = r.ql
             /\ promoted' = (IF cursor = 1 THEN {} ELSE promoted)
                            \cup Promoted(agents[cursor], r.agents[cursor], cursor)
             /\ cursor' = NextCursor(Len(agents), cursor + n - 1)
    /\ UNCHANGED layout

\* ------------------------------------------------- generate_agent_groups
\* [x] * n
Repeat(x, n) == [k \in 1..n |-> x]

\* the first loop of generate_agent_groups: for every (group_type, pct) of the
\* distribution, in its order, int(total_agents * pct // size) groups; pct is
\* in tenths
RECURSIVE counted_groups(_, _)
counted_groups(total_agents, distribution) ==
    IF distribution = <<>> THEN <<>>
    ELSE LET group_type == Head(distribution)[1]
             pct == Head(distribution)[2]
             size == SIZES(group_type)
             count == (total_agents * pct) \div (10 * size)
         IN  Repeat(group_type, count) \o counted_groups(total_agents, Tail(distribution))

\* used_agents after the first loop
RECURSIVE used_agents(_)
used_agents(groups) ==
    IF groups = <<>> THEN 0 ELSE SIZES(Head(groups)) + used_agents(Tail(groups))

\* generate_agent_groups without its second loop
generate_agent_groups_no_fill(total_agents, distribution) ==
    counted_groups(total_agents, distribution)

\* generate_agent_groups: the group types of the list it returns, in order;
\* range(remaining) is empty when remaining is negative
generate_agent_groups(total_agents, distribution) ==
    LET groups == counted_groups(total_agents, distribution)
        remaining == total_agents - used_agents(groups)
    IN  groups \o Repeat("INDIVIDUAL", Max(0, remaining))

\* the AgentGroup constructors of the groups, one after the other; kinds[k]
\* is the (behavior, budget) drawn for group k
RECURSIVE build_groups(_, _, _, _, _)
build_groups(ags, ql, groups, k, kinds) ==
    IF k > Len(groups) THEN [agents |-> ags, ql |-> ql]
    ELSE LET d == [j \in 1..SIZES(groups[k]) |->
                      [svc |-> 30000, sens |-> <<2, 2>>, rnd |-> NoDraw]]
             r == group_members(ags, ql, groups[k], SIZES(groups[k]), 0,
                                kinds[k][1], kinds[k][2], k, d)
         IN  build_groups(r.agents, r.ql, groups, k + 1, kinds)

\* one call of generate_agent_groups(total_agents, distribution, ...)
Factory ==
    /\ sim.driver = "factory"
    /\ agents = <<>>
    /\ LET groups == generate_agent_groups(sim.total_agents, sim.distribution)
       IN  \E kinds \in [1..Len(groups) -> sim.kinds] :
             /\ \A k \in 1..Len(groups) : kinds[k][1] \in group_behaviors(groups[k])
             /\ LET r == build_groups(agents, queue_length, groups, 1, kinds)
                IN  /\ agents' = r.agents
                    /\ queue_length' = r.ql
    /\ UNCHANGED <<layout, cursor, promoted>>

\* ------------------------------------------------------------------ Init
Entrance == <<0, 1000>>
\* a second exit, in the far corner
FarExit == <<2000, 2000>>

\* where the zones can lie: right of the entrance heading (y below the
\* entrance's) or left of it
Placements ==
    {c \in [ProductZones \cup CashZones -> {<<1000, 0>>, <<1000, 2000>>, <<2000, 1000>>}] :
        /\ \A z \in ProductZones : c[z][1] = 1000
        /\ c["c1"] = <<2000, 1000>>
        /\ c["c2"] = <<2000, 1000>>}

\* the crowd: up to MaxAgents default agents (TARGETED, MEDIUM) around one or
\* two checkout zones (the second of capacity 1), with no product zone or one
\* that is one tick away
InitCrowd ==
    /\ sim = [scenario |-> "crowd", driver |-> "update_loop", delta_time |-> 10000,
              speed |-> 10, scale_inv |-> 100, max_agents |-> MaxAgents, max_groups |-> 0,
              kinds |-> {<<"TARGETED", "MEDIUM">>}, sens |-> {<<2, 2>>},
              service_times |-> {30000, 40000}, start_pos |-> Entrance]
    /\ store_zones \in {<<>>, <<"p1">>}
    /\ cash_zones \in {<<"c1">>, <<"c1", "c2">>}
    /\ center = [z \in ProductZones \cup CashZones |->
                    IF z \in ProductZones THEN <<100, 1000>>
                    ELSE IF z = "c1" THEN <<2000, 1000>> ELSE <<2000, 2000>>]
    /\ max_queue_length \in [CashZones -> 1..MaxCap]
    /\ max_queue_length["c2"] = 1
    /\ exit_points \in {<<Entrance>>, <<>>}
    /\ exit_points = <<>> => store_zones = <<>> /\ cash_zones = <<"c1">>

\* one shopper of any behaviour and budget in a store of up to three product
\* zones, each right or left of the entrance heading
InitSolo ==
    /\ sim = [scenario |-> "solo", driver |-> "update_loop", delta_time |-> 10000,
              speed |-> 10, scale_inv |-> 100, max_agents |-> 1, max_groups |-> 0,
              kinds |-> BehaviorType \X BudgetLevel, sens |-> {<<10, 2>>, <<2, 10>>},
              service_times |-> {30000}, start_pos |-> Entrance]
    /\ store_zones \in {<<>>, <<"p1">>, <<"p1", "p2">>, <<"p1", "p2", "p3">>}
    /\ cash_zones \in {<<>>, <<"c1">>}
    /\ center \in Placements
    /\ \A z \in ProductZones \ ZoneSet(store_zones) : center[z] = <<1000, 0>>
    /\ max_queue_length = [z \in CashZones |-> 1]
    /\ exit_points \in {<<Entrance>>, <<Entrance, FarExit>>}

\* one AgentGroup updated with the default delta_time
InitGroup ==
    /\ sim = [scenario |-> "group", driver |-> "group_update",
              delta_time |-> DefaultDeltaTime,
              speed |-> 10000, scale_inv |-> 1000, max_agents |-> 3, max_groups |-> 1,
              kinds |-> {}, sens |-> {<<10, 2>>},
              service_times |-> {30000}, start_pos |-> Entrance]
    /\ store_zones \in {<<>>, <<"p1">>}
    /\ cash_zones \in {<<>>, <<"c1">>}
    /\ center = [z \in ProductZones \cup CashZones |->
                    IF z \in ProductZones THEN <<330, 1000>> ELSE <<2000, 1000>>]
    /\ max_queue_length \in [CashZones -> 1..MaxCap]
    /\ max_queue_length["c2"] = 1
    /\ exit_points = <<Entrance>>

\* one AgentGroup whose leader outruns its followers: with scale 1/11 and
\* speed 500 a FAMILY leader steps 1050 a tick and a follower 500; the
\* leader walks up and down the line y = 1000 towards a zone it never reaches
InitTrail ==
    /\ sim = [scenario |-> "trail", driver |-> "group_update",
              delta_time |-> DefaultDeltaTime,
              speed |-> 500, scale_inv |-> 11, max_agents |-> 3, max_groups |-> 1,
              kinds |-> {}, sens |-> {<<10, 2>>},
              service_times |-> {30000}, start_pos |-> Entrance]
    /\ store_zones = <<"p1">>
    /\ cash_zones = <<>>
    /\ center = [z \in ProductZones \cup CashZones |-> <<2000, 1000>>]
    /\ max_queue_length = [z \in CashZones |-> 1]
    /\ exit_points = <<Entrance>>

\* the editor's own run: one drawn product zone, one drawn checkout lane and
\* the entrance; spawn_agent is called up to twice, c1 and c2 are the
\* StoreZone objects its two calls build from the lane
InitSpawned ==
    /\ sim = [scenario |-> "spawned", driver |-> "update_loop", delta_time |-> 10000,
              speed |-> 10, scale_inv |-> 100, max_agents |-> 2, max_groups |-> 0,
              kinds |-> {<<"TARGETED", "MEDIUM">>, <<"EXPLORER", "HIGH">>},
              sens |-> {<<2, 2>>},
              service_times |-> {30000, 40000}, start_pos |-> Entrance]
    /\ store_zones = <<"p1">>
    /\ cash_zones = <<"c1", "c2">>
    /\ center = [z \in ProductZones \cup CashZones |->
                    IF z \in ProductZones THEN <<100, 1000>> ELSE <<2000, 1000>>]
    /\ max_queue_length = [z \in CashZones |-> DefaultMaxQueueLength]
    /\ exit_points = <<Entrance>>

\* one default shopper whose first product zone lies on the line of its entry
\* heading, one and a half steps ahead: a step is real_speed * scale * speed *
\* delta_time = 1000, the arrival radius speed * delta_time = 100
InitStride ==
    /\ sim = [scenario |-> "stride", driver |-> "update_loop", delta_time |-> 10000,
              speed |-> 10, scale_inv |-> 100, max_agents |-> 1, max_groups |-> 0,
              kinds |-> {<<"TARGETED", "MEDIUM">>}, sens |-> {<<2, 2>>},
              service_times |-> {30000}, start_pos |-> Entrance]
    /\ store_zones = <<"p1">>
    /\ cash_zones = <<"c1">>
    /\ center = [z \in ProductZones \cup CashZones |->
                    IF z \in ProductZones THEN <<1500, 1000>> ELSE <<2000, 1000>>]
    /\ max_queue_length = [z \in CashZones |-> 1]
    /\ exit_points = <<Entrance>>

Init ==
    /\ agents = <<>>
    /\ queue_length = [z \in CashZones |-> 0]
    /\ cursor = 1
    /\ promoted = {}
    /\ (InitCrowd \/ InitSolo \/ InitGroup \/ InitTrail \/ InitSpawned)

\* the shares of a distribution, in tenths
Shares == {0, 5, 10}

\* the distributions: the three group types in any order, each with a share
Distributions ==
    {d \in [1..3 -> GroupTypes \X Shares] :
        \A j, k \in 1..3 : j # k => d[j][1] # d[k][1]}

\* the inputs of one call of generate_agent_groups, in a store with no
\* product zone (the constructors consume no random draw there)
InitFactory ==
    /\ agents = <<>>
    /\ queue_length = [z \in CashZones |-> 0]
    /\ cursor = 1
    /\ promoted = {}
    /\ \E total_agents \in 0..MaxTotal, distribution \in Distributions :
         sim = [scenario |-> "factory", driver |-> "factory",
                delta_time |-> DefaultDeltaTime,
                speed |-> 10000, scale_inv |-> 1000, max_agents |-> 0, max_groups |-> 0,
                kinds |-> {<<"TARGETED", "MEDIUM">>, <<"FAMILY", "MEDIUM">>},
                sens |-> {<<2, 2>>}, service_times |-> {30000}, start_pos |-> Entrance,
                total_agents |-> total_agents, distribution |-> distribution]
    /\ store_zones = <<>>
    /\ cash_zones \in {<<>>, <<"c1">>}
    /\ center = [z \in ProductZones \cup CashZones |->
                    IF z \in ProductZones THEN <<330, 1000>> ELSE <<2000, 1000>>]
    /\ max_queue_length = [z \in CashZones |-> MaxCap]
    /\ exit_points = <<Entrance>>

FactoryNext == Factory

FactorySpec == InitFactory /\ [][FactoryNext]_vars

\* the runs of update_loop under a timer that keeps firing: the crowd and the
\* shopper of InitStride
LiveInit ==
    /\ agents = <<>>
    /\ queue_length = [z \in CashZones |-> 0]
    /\ cursor = 1
    /\ promoted = {}
    /\ (InitCrowd \/ InitStride)

LiveNext == SpawnAgent \/ Tick

\* update_timer calls update_loop again and again, and update_loop calls
\* move_towards_target of every agent that is not FINISHED: a tick that is
\* possible is eventually made.  Nothing obliges the caller to construct
\* another agent.
LiveSpec == LiveInit /\ [][LiveNext]_vars /\ WF_vars(Tick)

Next == SpawnAgent \/ Tick \/ SpawnGroup \/ GroupUpdate \/ spawn_agent

Spec == Init /\ [][Next]_vars

TypeOK ==
    /\ \A k \in 1..Len(agents) : agents[k].state \in CustomerState
    /\ cursor \in 1..(Len(agents) + 1)


\* ================================================================ claims
Agents == 1..Len(agents)

\* ---------------------------------------------------------------- C1
\* C1: in every reachable state, every checkout zone has
\* 0 <= queue_length <= max_queue_length.
C1_QueueLengthBounded ==
    \A z \in CashZones :
        0 <= queue_length[z] /\ queue_length[z] <= max_queue_length[z]

\* a zone of capacity 2 or more that is full after one slot of it was
\* released and claimed again
C1_Witness ==
    \E z \in ZoneSet(cash_zones) :
        /\ max_queue_length[z] >= 2
        /\ queue_length[z] = max_queue_length[z]
        /\ \E i \in Agents : agents[i].releases = 1
        /\ \E i \in Agents : agents[i].current_cash_zone = z /\ agents[i].queue_position = 2

\* ---------------------------------------------------------------- C2
\* C2: within one tick pass over the agents, at most one agent of a checkout
\* zone's queue goes from IN_QUEUE to PAYING (never two in the same pass).
C2_OnePromotionPerPass ==
    \A z \in CashZones :
        Cardinality({i \in promoted : agents[i].current_cash_zone = z}) <= 1

\* ---------------------------------------------------------------- C3
\* C3: when every checkout zone is full at the moment an agent with no
\* unvisited zones leaves the shelf and runs _choose_next_target, the agent
\* claims no slot and keeps its state: it does not become FINISHED.
C3_FullCheckoutsKeepState ==
    \A i \in Agents :
        LET ag == agents[i]
            r == move_towards_target(agents, queue_length, i, AllAgents(agents),
                                     sim.delta_time, [NoDraw EXCEPT !.u = 0])
        IN  (/\ sim.driver = "update_loop"
             /\ ag.state = "SHOPPING"
             /\ ag.shopping_time + sim.delta_time >= min_shopping_time
             /\ ag.unvisited_zones = <<>>
             /\ ag.cash_zones # <<>>
             /\ choose_cash(ag, queue_length) = None)
            => /\ r.ag.state = "SHOPPING"
               /\ r.ag.claims = ag.claims
               /\ r.ql = queue_length

\* ---------------------------------------------------------------- C4
\* C4: when k agents are constructed one after the other in a store with no
\* product zone and one checkout zone of capacity m, before any tick exactly
\* min(k, m) of them hold the slots 1..min(k, m), queue_length is min(k, m)
\* and the others hold no slot; join_queue on a full zone returns -1 and
\* leaves queue_length as it is.
C4_ClaimsUpToCapacity ==
    /\ \A z \in CashZones :
          ~can_join_queue(queue_length, z)
              => join_queue(queue_length, z) = [ql |-> queue_length, ret |-> -1]
    /\ (/\ store_zones = <<>>
        /\ cash_zones = <<"c1">>
        /\ Len(agents) >= 1
        /\ agents[1].state = "IN_QUEUE")
       => LET n == Min(Len(agents), max_queue_length["c1"])
          IN  /\ queue_length["c1"] = n
              /\ \A i \in Agents :
                    IF i <= n
                    THEN /\ agents[i].current_cash_zone = "c1"
                         /\ agents[i].queue_position = i
                         /\ agents[i].state = "IN_QUEUE"
                    ELSE /\ agents[i].current_cash_zone = None
                         /\ agents[i].queue_position = 0

\* three agents constructed at a checkout zone of capacity two, none ticked
C4_Witness ==
    /\ store_zones = <<>>
    /\ cash_zones = <<"c1">>
    /\ max_queue_length["c1"] = 2
    /\ Len(agents) = 3
    /\ agents[1].state = "IN_QUEUE"
    /\ queue_length["c1"] = 2
    /\ agents[3].current_cash_zone = None

\* ---------------------------------------------------------------- C5
\* C5: in every reachable state, move_towards_target with delta_time = 0
\* leaves the agent's position, state, shopping_time and payment_time as
\* they are.
C5_ZeroDeltaTimeIsNoOp ==
    \A i \in Agents :
        \A rnd \in TickDraws(agents[i]) :
            LET ag == agents[i]
                r == move_towards_target(agents, queue_length, i, AllAgents(agents),
                                         0, rnd)
            IN  sim.driver = "update_loop"
                => /\ r.ag.position = ag.position
                   /\ r.ag.state = ag.state
                   /\ r.ag.shopping_time = ag.shopping_time
                   /\ r.ag.payment_time = ag.payment_time

\* ---------------------------------------------------------------- C6
\* C6: for every agent, unvisited_zones and visited_zones are disjoint,
\* visited_zones has no duplicates, together they are the zones the agent
\* was constructed with, and a visited zone never leaves visited_zones.
C6_ZonePartition ==
    [][\A i \in 1..Len(agents') :
          LET ag == agents'[i]
          IN  /\ ZoneSet(ag.unvisited_zones) \cap ZoneSet(ag.visited_zones) = {}
              /\ Cardinality(ZoneSet(ag.visited_zones)) = Len(ag.visited_zones)
              /\ ZoneSet(ag.unvisited_zones) \cup ZoneSet(ag.visited_zones)
                     = ZoneSet(store_zones)
              /\ i <= Len(agents)
                     => /\ ZoneSet(agents[i].visited_zones) \subseteq ZoneSet(ag.visited_zones)
                        /\ ZoneSet(ag.unvisited_zones)
                               \subseteq ZoneSet(agents[i].unvisited_zones)]_vars

\* an agent of a three-zone store that has selected two zones
C6_Witness ==
    \E i \in Agents :
        /\ Len(store_zones) = 3
        /\ Len(agents[i].visited_zones) = 2
        /\ Len(agents[i].unvisited_zones) = 1

\* ---------------------------------------------------------------- C7
\* C7: an agent of a store with N >= 1 product zones, no checkout zone and an
\* exit, ticked alone, has entered SHOPPING once per visited zone, ends with
\* N visited zones, and is FINISHED only on an exit point.
C7_NoCheckoutRun ==
    \A i \in Agents :
        LET ag == agents[i]
        IN  (/\ Len(agents) = 1
             /\ ag.cash_zones = <<>>
             /\ Len(store_zones) >= 1
             /\ ag.state = "FINISHED")
            => /\ ag.dwells = Len(ag.visited_zones)
               /\ Len(ag.visited_zones) = Len(store_zones)
               /\ ag.unvisited_zones = <<>>
               /\ \E k \in 1..Len(exit_points) : exit_points[k] = ag.position

\* ---------------------------------------------------------------- C8
\* C8 as stated: an agent with budget LOW never selects a zone of
\* attractiveness below 1.3 while a zone of attractiveness 1.3 or more is
\* unvisited, its first selection included.
C8_LowBudgetAllUnvisited ==
    \A i \in Agents :
        LET ag == agents[i]
        IN  (/\ ag.budget = "LOW"
             /\ ag.selected # None
             /\ attractiveness(ag.selected) < LowThreshold)
            => \A k \in 1..Len(ag.unvisited_zones) :
                   attractiveness(ag.unvisited_zones[k]) < LowThreshold

\* the zones the budget filter of the agent's last selection was applied to:
\* at the first selection the unvisited zones right of the entry heading (all
\* of them when none lies right), afterwards all unvisited zones
C8_Pool(ag) ==
    IF Len(ag.visited_zones) = 1
    THEN first_move_zones([ag EXCEPT !.first_move = TRUE, !.position = sim.start_pos],
                          store_zones)
    ELSE ag.unvisited_zones \o <<ag.selected>>

\* C8: an agent with budget LOW never selects a zone of attractiveness below
\* 1.3 while a zone of attractiveness 1.3 or more is among the zones its
\* budget filter is applied to (the right-hand zones at the first selection,
\* all unvisited zones afterwards).
C8_LowBudgetFilteredPool ==
    \A i \in Agents :
        LET ag == agents[i]
        IN  (/\ ag.budget = "LOW"
             /\ ag.selected # None
             /\ attractiveness(ag.selected) < LowThreshold)
            => \A z \in ZoneSet(C8_Pool(ag)) : attractiveness(z) < LowThreshold

\* a LOW agent whose second selection took a zone of attractiveness 1.3 or
\* more while a cheaper zone was unvisited
C8_Witness ==
    \E i \in Agents :
        /\ agents[i].budget = "LOW"
        /\ Len(agents[i].visited_zones) = 2
        /\ attractiveness(agents[i].selected) >= LowThreshold
        /\ \E k \in 1..Len(agents[i].unvisited_zones) :
              attractiveness(agents[i].unvisited_zones[k]) < LowThreshold

\* ---------------------------------------------------------------- C9
\* C9: every agent that claimed a slot releases it; once the agent that is
\* ticked for a group (the leader; a single agent is its own group) is
\* FINISHED, no agent of the group still holds a claimed slot.
C9_SlotsReleasedAtEnd ==
    \A i \in Agents :
        (agents[i].role = 0 /\ agents[i].state = "FINISHED")
        => \A j \in Agents :
               agents[j].group_id = agents[i].group_id
               => agents[j].claims = agents[j].releases

\* --------------------------------------------------------------- C10
\* C10: FINISHED is terminal: a call of move_towards_target on a FINISHED
\* agent, with any delta_time and any random draws, changes neither the
\* agent (state, position, destination, timers, zone lists) nor any
\* queue_length.
C10_FinishedIsTerminal ==
    \A i \in Agents :
        agents[i].state = "FINISHED"
        => \A dt \in {0, DefaultDeltaTime, sim.delta_time} :
               \A rnd \in Draws(agents[i], RandomDraws, Headings) :
                   move_towards_target(agents, queue_length, i, AllAgents(agents), dt, rnd)
                       = [ag |-> agents[i], ql |-> queue_length]

\* an agent FINISHED on the exit it walked to, a checkout slot being free
C10_Witness ==
    \E i \in Agents :
        /\ agents[i].state = "FINISHED"
        /\ agents[i].releases = 1
        /\ agents[i].position = agents[i].destination
        /\ choose_cash(agents[i], queue_length) # None

\* --------------------------------------------------------------- C11
\* the changes of state the state machine of the specification lists
ListedTransitions ==
    {<<"WALKING", "SHOPPING">>, <<"WALKING", "FINISHED">>, <<"SHOPPING", "WALKING">>,
     <<"WALKING", "IN_QUEUE">>, <<"IN_QUEUE", "PAYING">>, <<"PAYING", "LEAVING">>,
     <<"LEAVING", "FINISHED">>}

\* C11: every change of an agent's state made by one call of
\* move_towards_target is one of WALKING->SHOPPING, WALKING->FINISHED,
\* SHOPPING->WALKING, WALKING->IN_QUEUE, IN_QUEUE->PAYING, PAYING->LEAVING,
\* LEAVING->FINISHED.
C11_OnlyListedTransitions ==
    [][\A i \in Agents :
          agents'[i].state # agents[i].state
              => <<agents[i].state, agents'[i].state>> \in ListedTransitions]_vars

\* --------------------------------------------------------------- C12
IsExit(p) == \E k \in 1..Len(exit_points) : exit_points[k] = p

GroupIds == {agents[i].group_id : i \in Agents}

GroupSize(g) == Cardinality({i \in Agents : agents[i].group_id = g})

\* the share the distribution gives a group type
ShareOf(group_type) ==
    LET k == CHOOSE k \in 1..3 : sim.distribution[k][1] = group_type
    IN  sim.distribution[k][2]

ShareSum == ShareOf("INDIVIDUAL") + ShareOf("PAIR") + ShareOf("FAMILY")

\* C13 as stated: for every total >= 0 and every distribution of
\* non-negative shares, the member counts of the groups generate_agent_groups
\* returns sum to exactly total.
C13_SumIsTotalAnyShares ==
    (sim.driver = "factory" /\ agents # <<>>) => Len(agents) = sim.total_agents

\* C13: for every total >= 0 and every distribution whose shares sum to at
\* most 1, generate_agent_groups returns floor(total * share / size) groups
\* of every type of size 2 and 3, floor(total * share) single-agent groups
\* plus one per agent of the shortfall, and the member counts sum to total.
C13_SumIsTotal ==
    (sim.driver = "factory" /\ agents # <<>> /\ ShareSum <= 10)
    => LET pairs == (sim.total_agents * ShareOf("PAIR")) \div 20
           families == (sim.total_agents * ShareOf("FAMILY")) \div 30
           singles == (sim.total_agents * ShareOf("INDIVIDUAL")) \div 10
           shortfall == sim.total_agents - (2 * pairs + 3 * families + singles)
       IN  /\ Len(agents) = sim.total_agents
           /\ Cardinality({g \in GroupIds : GroupSize(g) = 2}) = pairs
           /\ Cardinality({g \in GroupIds : GroupSize(g) = 3}) = families
           /\ Cardinality({g \in GroupIds : GroupSize(g) = 1}) = singles + shortfall
           /\ shortfall >= 0

\* a call whose first loop leaves a shortfall: one pair, the third agent
\* added as a single-agent group
C13_Witness ==
    /\ sim.driver = "factory"
    /\ sim.total_agents = 3
    /\ ShareOf("PAIR") = 10
    /\ ShareSum = 10
    /\ Len(agents) = 3
    /\ Cardinality(GroupIds) = 2

\* --------------------------------------------------------------- C14
\* p lies on the segment from a to b
OnSegment(a, b, p) ==
    /\ (b[1] - a[1]) * (p[2] - a[2]) - (b[2] - a[2]) * (p[1] - a[1]) = 0
    /\ (p[1] - a[1]) * (b[1] - p[1]) + (p[2] - a[2]) * (b[2] - p[2]) >= 0

\* C14: in one AgentGroup.update every follower i >= 1 moves on the straight
\* line towards the position member i-1 has after its own move of the same
\* update, without passing it: its new distance to that position is
\* max(0, old distance - step) with step = the group's speed >= 0; a follower
\* coincident with its predecessor stays on it.
C14_FollowerStep ==
    [][\A j \in Agents :
          agents[j].role >= 1
          => LET old == agents[j].position
                 new == agents'[j].position
                 tgt == agents'[j - 1].position
             IN  /\ agents[j - 1].group_id = agents[j].group_id
                 /\ old = tgt => new = tgt
                 /\ OnSegment(old, tgt, new)
                 /\ sim.speed >= 0
                 /\ distance_to(new, tgt) = Max(0, distance_to(old, tgt) - sim.speed)]_vars

\* a follower that is behind its predecessor by more than one step
C14_Witness ==
    \E j \in Agents :
        /\ agents[j].role >= 1
        /\ agents[j].position # agents[j - 1].position
        /\ agents[j].position # sim.start_pos
        /\ Dist2(agents[j].position, agents[j - 1].position) > 0

\* --------------------------------------------------------------- C15
\* C15: in one AgentGroup.update a follower moves at most its own speed
\* multiplied by the tick's delta_time (speed * 0.033, speed being 0.7 x the
\* spawn speed for a FAMILY agent).
C15_FollowerStepBounded ==
    [][\A j \in Agents :
          agents[j].role >= 1
          => Dist2(agents[j].position, agents'[j].position)
                 <= reach(agents[j], DefaultDeltaTime) * reach(agents[j], DefaultDeltaTime)]_vars

\* --------------------------------------------------------------- C16
\* C16: within a group only the leader (member 0) ever acquires a checkout
\* queue slot: no follower has a current_cash_zone or has claimed a slot.
C16_OnlyLeaderQueues ==
    \A j \in Agents :
        agents[j].role >= 1
        => /\ agents[j].current_cash_zone = None
           /\ agents[j].claims = 0

\* --------------------------------------------------------------- C17
\* C17: no call of move_towards_target raises an exception for an agent the
\* constructor accepted.
C17_NoException ==
    \A i \in Agents : ~agents[i].raised

\* --------------------------------------------------------------- C18
\* the checkout zones with a free slot among those of ag
FreeCash(ag) ==
    {z \in ZoneSet(ag.cash_zones) : queue_length[z] < max_queue_length[z]}

\* what _choose_next_target does for an agent with no unvisited zones
C18_Choice(ag) ==
    LET r == choose_next_target(ag, queue_length, NoDraw)
        z == r.ag.current_cash_zone
    IN  IF FreeCash(ag) = {}
        THEN r.ag.claims = ag.claims /\ r.ql = queue_length
        ELSE /\ r.ag.state = "IN_QUEUE"
             /\ z \in FreeCash(ag)
             /\ r.ql = [queue_length EXCEPT ![z] = @ + 1]
             /\ \A y \in FreeCash(ag) :
                   \/ queue_length[z] < queue_length[y]
                   \/ /\ queue_length[z] = queue_length[y]
                      /\ Dist2(ag.position, center[z]) <= Dist2(ag.position, center[y])

\* C18: when an agent with no unvisited zones selects a checkout (leaving the
\* shelf, or in its constructor), the zone chosen has queue_length <
\* max_queue_length and minimises (queue_length, distance to the zone centre)
\* lexicographically among such zones; a full zone is never chosen.
C18_CheckoutChoice ==
    /\ \A i \in Agents :
          (/\ agents[i].state = "SHOPPING"
           /\ agents[i].unvisited_zones = <<>>
           /\ agents[i].cash_zones # <<>>)
          => C18_Choice(agents[i])
    /\ (store_zones = <<>> /\ cash_zones # <<>>)
       => C18_Choice(new_agent(sim.start_pos, "TARGETED", "MEDIUM", sim.speed,
                               30000, <<2, 2>>, 0, 0))

\* an agent about to choose between a nearer zone with the longer queue and
\* a farther zone with the shorter one, both with a free slot
C18_Witness ==
    \E i \in Agents :
        /\ agents[i].state = "SHOPPING"
        /\ agents[i].unvisited_zones = <<>>
        /\ FreeCash(agents[i]) = {"c1", "c2"}
        /\ queue_length["c1"] > queue_length["c2"]
        /\ Dist2(agents[i].position, center["c1"]) < Dist2(agents[i].position, center["c2"])

C20_OnePayingPerZone ==
    \A z \in CashZones :
        Cardinality({i \in Agents : /\ agents[i].state = "PAYING"
                                    /\ agents[i].current_cash_zone = z}) <= 1

\* --------------------------------------------------------------- C21
\* C21: agents start PAYING in the order in which they claimed their slots:
\* of two agents of one checkout zone ticked with the full agent list, the one
\* whose join_queue happened later is not PAYING while the other is still
\* IN_QUEUE.
C21_PayingInClaimOrder ==
    \A a, b \in Agents :
        (/\ sim.driver = "update_loop"
         /\ agents[a].current_cash_zone # None
         /\ agents[a].current_cash_zone = agents[b].current_cash_zone
         /\ agents[a].ticket < agents[b].ticket
         /\ agents[a].state = "IN_QUEUE")
        => agents[b].state # "PAYING"

\* --------------------------------------------------------------- C22
\* the agents holding a slot of checkout zone z
Holders(z) ==
    {i \in Agents : /\ agents[i].state \in {"IN_QUEUE", "PAYING"}
                    /\ agents[i].current_cash_zone = z}

\* C22: at any time the agents holding a slot of the same checkout zone
\* (IN_QUEUE or PAYING with current_cash_zone = that zone) have pairwise
\* distinct queue_position values.
C22_DistinctQueuePositions ==
    \A z \in CashZones :
        \A i, j \in Holders(z) :
            i # j => agents[i].queue_position # agents[j].queue_position

\* --------------------------------------------------------------- C23
\* C23: for every checkout zone, in every reachable state, queue_length is
\* the number of agents whose current_cash_zone is that zone, and these
\* agents are IN_QUEUE or PAYING.
C23_QueueLengthCountsHolders ==
    \A z \in CashZones :
        /\ queue_length[z] = Cardinality({i \in Agents : agents[i].current_cash_zone = z})
        /\ \A i \in Agents :
              agents[i].current_cash_zone = z => agents[i].state \in {"IN_QUEUE", "PAYING"}

\* a zone with two holders, one of them on a slot that was released before
C23_Witness ==
    \E z \in ZoneSet(cash_zones) :
        /\ Cardinality(Holders(z)) = 2
        /\ queue_length[z] = 2
        /\ \E i \in Agents : agents[i].releases = 1 /\ agents[i].state = "FINISHED"
        /\ \E i \in Holders(z) : agents[i].state = "PAYING"

\* --------------------------------------------------------------- C24
\* C24: no agent constructed with a non-empty checkout-zone list is FINISHED
\* without having completed a payment.
C24_FinishedOnlyAfterPaying ==
    \A i \in Agents :
        (agents[i].state = "FINISHED" /\ agents[i].cash_zones # <<>>)
        => agents[i].releases >= 1

\* --------------------------------------------------------------- C25
\* C25: all agents spawned by spawn_agent for the same drawn checkout lane
\* share one queue counter: the counter every spawned agent consults
\* (can_join_queue, join_queue) counts the slots all spawned agents hold at
\* the lane.
C25_SpawnedShareCounter ==
    sim.scenario = "spawned"
    => \A j \in Agents :
           queue_length[agents[j].cash_zones[1]]
               = Cardinality({i \in Agents : agents[i].current_cash_zone # None})

\* --------------------------------------------------------------- C26
\* C26: in AgentGroup.update the leader's tick is evaluated against the
\* complete agent population: for the leader of every group, the update
\* leaves the leader as move_towards_target called with the agents of all
\* groups leaves it.
C26_LeaderSeesAllGroups ==
    \A i \in Agents :
        agents[i].role = 0
        => \A rnd \in TickDraws(agents[i]) :
               group_update(agents, queue_length, i, rnd).agents[i]
                   = move_towards_target(agents, queue_length, i, AllAgents(agents),
                                         DefaultDeltaTime, rnd).ag

\* --------------------------------------------------------------- C27
\* the step is a call of move_towards_target on agent i
Ticked(i) ==
    /\ cursor = i
    /\ agents[i].role = 0
    /\ Len(agents') = Len(agents)

\* C27: a WALKING or LEAVING agent whose distance to its destination is less
\* than one tick's travel distance (real_speed * scale * speed * delta_time)
\* is placed exactly on the destination in that tick.  (At a distance equal
\* to the travel distance the claim says the same; that case is left to the
\* heading and is not needed here.)
C27_SnapWithinOneStep ==
    [][\A i \in Agents :
          (/\ Ticked(i)
           /\ agents[i].state \in {"WALKING", "LEAVING"}
           /\ Truthy(agents[i].destination)
           /\ Dist2(agents[i].position, agents[i].destination)
                  < step_length(agents[i], sim.delta_time)
                        * step_length(agents[i], sim.delta_time))
          => agents'[i].position = agents[i].destination]_vars

\* --------------------------------------------------------------- C28
\* C28: under repeated ticks with delta_time > 0, in a store with a product
\* zone, a checkout zone and an exit point, an agent with no other agent
\* around eventually reaches FINISHED.
C28_EveryAgentFinishes ==
    (/\ sim.max_agents = 1
     /\ Len(agents) = 1
     /\ sim.delta_time > 0
     /\ store_zones # <<>> /\ cash_zones # <<>> /\ exit_points # <<>>)
    ~> (Len(agents) = 1 /\ agents[1].state = "FINISHED")

\* --------------------------------------------------------------- C29
\* C29: no agent waits in a queue for ever.  For as long as the run goes on
\* ticking (a run ended by an exception ticks no agent): every agent that is
\* IN_QUEUE and is ticked with the full agent list eventually becomes PAYING
\* (it leaves IN_QUEUE, and only for PAYING), every PAYING agent ticked with
\* delta_time > 0 eventually becomes LEAVING and has freed its slot (it leaves
\* PAYING, and only so), and a full checkout zone eventually has free
\* capacity again.
C29_NoWaitingForever ==
    /\ [][\A i \in Agents :
            /\ (agents[i].state = "IN_QUEUE" /\ agents'[i].state # "IN_QUEUE")
                   => agents'[i].state = "PAYING"
            /\ (agents[i].state = "PAYING" /\ agents'[i].state # "PAYING")
                   => /\ agents'[i].state = "LEAVING"
                      /\ agents'[i].current_cash_zone = None
                      /\ queue_length'[agents[i].current_cash_zone]
                             = queue_length[agents[i].current_cash_zone] - 1]_vars
    /\ \A i \in 1..MaxAgents :
          /\ []<>(~Running \/ i \notin Agents \/ agents[i].state # "IN_QUEUE")
          /\ []<>(~Running \/ i \notin Agents \/ sim.delta_time = 0
                            \/ agents[i].state # "PAYING")
    /\ \A z \in CashZones :
          []<>(~Running \/ queue_length[z] < max_queue_length[z])

\* an agent that waited behind another agent of its zone and is PAYING now
C29_Witness ==
    \E i \in Agents :
        /\ agents[i].state = "PAYING"
        /\ agents[i].queue_position = 2
        /\ agents[i].position # sim.start_pos
        /\ \E j \in Agents : agents[j].releases = 1

\* --------------------------------------------------------------- C30
\* C30: in every reachable state an agent in IN_QUEUE or PAYING has a
\* current_cash_zone and a queue_position with 1 <= queue_position <=
\* max_queue_length of that zone; an agent that has claimed no slot holds no
\* zone and no queue_position and is in another state; an agent whose
\* join_queue returns -1 (the zone is full) does not become IN_QUEUE.
C30_SlotWithinCapacity ==
    \A i \in Agents :
        LET ag == agents[i]
        IN  /\ ag.state \in {"IN_QUEUE", "PAYING"}
               => /\ ag.current_cash_zone \in ZoneSet(ag.cash_zones)
                  /\ 1 <= ag.queue_position
                  /\ ag.queue_position <= max_queue_length[ag.current_cash_zone]
            /\ ag.claims = 0
               => /\ ag.current_cash_zone = None
                  /\ ag.queue_position = 0
                  /\ ag.state \notin {"IN_QUEUE", "PAYING"}
            /\ \A z \in ZoneSet(ag.cash_zones) :
                  (ag.state \notin {"IN_QUEUE", "PAYING"} /\ ~can_join_queue(queue_length, z))
                  => LET c == claim_slot(ag, queue_length, z)
                     IN  /\ join_queue(queue_length, z).ret = -1
                         /\ ~c.done
                         /\ c.ag.state = ag.state
                         /\ c.ql = queue_length

\* an agent on the last slot of a zone of capacity 2, while another agent
\* found the zone full, holds nothing and is FINISHED
C30_Witness ==
    \E i, k \in Agents :
        /\ agents[i].state = "IN_QUEUE"
        /\ agents[i].queue_position = 2
        /\ max_queue_length[agents[i].current_cash_zone] = 2
        /\ ~can_join_queue(queue_length, agents[i].current_cash_zone)
        /\ agents[k].claims = 0
        /\ agents[k].state = "FINISHED"

\* --------------------------------------------------------------- C31
\* the agent as its constructor has it before the first selection
AtConstruction(ag) ==
    [ag EXCEPT !.first_move = TRUE, !.position = sim.start_pos,
               !.unvisited_zones = store_zones, !.visited_zones = <<>>]

\* C31: the right-hand restriction is applied to at most one product-zone
\* selection per agent, the first one: the first zone selected lies right of
\* the entry heading when an unvisited zone does, and is any zone otherwise;
\* once a zone has been selected the restriction is off, and the zones a
\* later selection starts from are all unvisited zones.
C31_RightHandOnce ==
    \A i \in Agents :
        LET ag == agents[i]
            rz == zones_to_right(AtConstruction(ag), store_zones)
        IN  /\ Len(ag.visited_zones) >= 1
               => /\ ~ag.first_move
                  /\ first_move_zones(ag, ag.unvisited_zones) = ag.unvisited_zones
            /\ Len(ag.visited_zones) = 1
               => /\ rz # <<>> => ag.selected \in ZoneSet(rz)
                  /\ rz = <<>> => ag.selected \in ZoneSet(store_zones)
                  /\ first_move_zones(AtConstruction(ag), store_zones)
                         = IF rz # <<>> THEN rz ELSE store_zones

\* an agent whose first selection took the zone on the right while a zone on
\* the left was unvisited, and whose second selection took that zone on the
\* left
C31_Witness ==
    \E i \in Agents :
        LET ag == agents[i]
            rz == zones_to_right(AtConstruction(ag), store_zones)
        IN  /\ Len(ag.visited_zones) = 2
            /\ ag.visited_zones[1] \in ZoneSet(rz)
            /\ ag.visited_zones[2] \notin ZoneSet(rz)
            /\ ag.selected = ag.visited_zones[2]

\* an agent with no zone on its right whose first selection fell back to
\* the zones on the left
C31_FallbackWitness ==
    \E i \in Agents :
        LET ag == agents[i]
        IN  /\ Len(ag.visited_zones) = 1
            /\ Len(store_zones) >= 2
            /\ zones_to_right(AtConstruction(ag), store_zones) = <<>>

\* --------------------------------------------------------------- C32
\* what the specification asks of a selection of ag: Z is the candidate set
\* after the right-hand step
C32_Selection(ag) ==
    LET Z == ZoneSet(first_move_zones(ag, ag.unvisited_zones))
        threshold == IF ag.budget = "LOW" THEN LowThreshold ELSE MediumThreshold
        fit == {z \in Z : attractiveness(z) >= threshold}
        filtered == IF ag.budget = "HIGH" \/ fit = {} THEN Z ELSE fit
    IN  /\ ZoneSet(candidates(ag)) = filtered
        /\ \A rnd \in CtorDraws(ag) :
              LET z == weighted_choice(ag, candidates(ag), rnd)
              IN  /\ z \in filtered
                  /\ z \in ZoneSet(ag.unvisited_zones)
                  /\ visit_next(ag, rnd).selected = z

\* C32: given the candidate set Z after the right-hand step, the budget
\* filter yields {z in Z : attractiveness >= 1.3} for LOW and {z in Z :
\* attractiveness >= 1.1} for MEDIUM when that subset is non-empty, and Z
\* when it is empty or the budget is HIGH; the zone selected is a member of
\* the filtered set and of unvisited_zones.  For the first selection of
\* every agent and for the next selection of every agent with unvisited
\* zones.
C32_BudgetFilter ==
    \A i \in Agents :
        /\ store_zones # <<>> => C32_Selection(AtConstruction(agents[i]))
        /\ agents[i].unvisited_zones # <<>> => C32_Selection(agents[i])

\* a LOW agent of a store with three zones on its right, of attractiveness
\* 0.8, 1.5 and 1.1, that has selected the one of 1.5, and a MEDIUM agent
\* apart, is one run each; here the LOW one with two zones left to select
C32_Witness ==
    \E i \in Agents :
        LET ag == agents[i]
        IN  /\ ag.budget = "LOW"
            /\ Len(store_zones) = 3
            /\ Len(zones_to_right(AtConstruction(ag), store_zones)) = 3
            /\ ag.visited_zones = <<"p2">>
            /\ ag.state = "SHOPPING"

\* --------------------------------------------------------------- C33
\* the delta_time values a call is tried with: below, at and above the
\* minimum dwell
C33_DeltaTimes ==
    {0, DefaultDeltaTime, min_shopping_time - 1, min_shopping_time, sim.delta_time}

\* one call of move_towards_target on the SHOPPING agent i
C33_Call(i, dt, rnd) ==
    LET ag == agents[i]
        r == move_towards_target(agents, queue_length, i, AllAgents(agents), dt, rnd)
        held == SumSeq([k \in 1..Len(cash_zones) |-> queue_length[cash_zones[k]]])
        held_after == SumSeq([k \in 1..Len(cash_zones) |-> r.ql[cash_zones[k]]])
    IN  /\ ag.shopping_time + dt < min_shopping_time => r.ag.state = "SHOPPING"
        /\ r.ag.state = "SHOPPING"
           => /\ [r.ag EXCEPT !.draws = 0]
                    = [ag EXCEPT !.shopping_time = @ + dt, !.draws = 0]
              /\ r.ql = queue_length
        /\ r.ag.state # "SHOPPING"
           => /\ r.ag.shopping_time = 0
              /\ \/ /\ r.ag.state = "WALKING"
                    /\ \E z \in ZoneSet(ag.unvisited_zones) :
                          /\ r.ag.visited_zones = Append(ag.visited_zones, z)
                          /\ r.ag.unvisited_zones = RemoveFirst(ag.unvisited_zones, z)
                          /\ r.ag.destination = center[z]
                    /\ r.ag.claims = ag.claims
                    /\ r.ql = queue_length
                 \/ /\ r.ag.state = "IN_QUEUE"
                    /\ r.ag.visited_zones = ag.visited_zones
                    /\ r.ag.claims = ag.claims + 1
                    /\ held_after = held + 1
                 \/ /\ r.ag.state = "FINISHED"
                    /\ r.ag.visited_zones = ag.visited_zones
                    /\ r.ag.claims = ag.claims
                    /\ r.ql = queue_length

\* C33: a SHOPPING agent does not leave SHOPPING in a tick where
\* shopping_time, after delta_time is added, is below min_shopping_time;
\* when it leaves SHOPPING, shopping_time is reset to 0 and exactly one
\* target is selected again (one product zone, one checkout slot, or none
\* and the agent is FINISHED); while it stays SHOPPING the tick changes
\* nothing but shopping_time.
C33_MinimumDwell ==
    \A i \in Agents :
        agents[i].state = "SHOPPING"
        => \A dt \in C33_DeltaTimes :
               \A rnd \in Draws(agents[i], RandomDraws, {<<1, 0>>}) :
                   C33_Call(i, dt, rnd)

\* an agent that has left its first shelf for a second zone, timer at 0
C33_Witness ==
    \E i \in Agents :
        /\ agents[i].state = "WALKING"
        /\ agents[i].dwells = 1
        /\ Len(agents[i].visited_zones) = 2
        /\ agents[i].shopping_time = 0

\* an agent that stayed at a shelf past the minimum dwell after a failed draw
C33_StayWitness ==
    \E i \in Agents :
        /\ agents[i].state = "SHOPPING"
        /\ agents[i].draws = 1
        /\ agents[i].shopping_time >= min_shopping_time

\* --------------------------------------------------------------- C34
\* the weights _weighted_choice computes for the candidates of ag
C34_Weights(ag, rnd) ==
    [k \in 1..Len(candidates(ag)) |-> weight(ag, candidates(ag)[k], rnd)]

\* the agents a selection is tried on: every agent as constructed, and every
\* agent with zones left to visit
C34_Choosers ==
    {AtConstruction(agents[i]) : i \in {j \in Agents : store_zones # <<>>}}
    \cup {agents[i] : i \in {j \in Agents : agents[j].unvisited_zones # <<>>}}

\* C34: when the total weight is positive, _weighted_choice returns only
\* zones of strictly positive weight: a zone of weight 0 is never returned,
\* whatever the draw in [0, total].
C34_PositiveWeightOnly ==
    \A ag \in C34_Choosers :
        \A rnd \in CtorDraws(ag) :
            SumSeq(C34_Weights(ag, rnd)) > 0
            => weight(ag, weighted_choice(ag, candidates(ag), rnd), rnd) > 0

\* _weighted_choice over a non-empty list returns a member of the list
C34_ReturnsMember ==
    \A ag \in C34_Choosers :
        \A rnd \in CtorDraws(ag) :
            weighted_choice(ag, candidates(ag), rnd) \in ZoneSet(candidates(ag))

\* when the total weight is not positive every zone of the list is returned
\* by some draw
C34_AnyZoneWithoutWeight ==
    \A ag \in C34_Choosers :
        \A rnd \in CtorDraws(ag) :
            SumSeq(C34_Weights(ag, rnd)) <= 0
            => \A z \in ZoneSet(candidates(ag)) :
                   \E other \in CtorDraws(ag) :
                       /\ other.imp = rnd.imp
                       /\ other.jitter = rnd.jitter
                       /\ weighted_choice(ag, candidates(ag), other) = z

\* a BUDGET agent all of whose candidates have weight 0 has selected a zone
C34_NoWeightWitness ==
    \E i \in Agents :
        /\ agents[i].behavior = "BUDGET"
        /\ Len(agents[i].visited_zones) = 1
        /\ Len(store_zones) >= 2
        /\ \A z \in ZoneSet(store_zones) : utility(agents[i], z) <= 0

\* --------------------------------------------------------------- C35
\* a call of move_towards_target on the SHOPPING or PAYING agent i leaves
\* its position alone and does not steer: the result is the same whatever
\* heading a steering step would have taken (u is the leave-the-shelf draw)
C35_Still(i) ==
    \A dt \in {DefaultDeltaTime, sim.delta_time} :
        \A u \in RandomDraws :
            \A h \in Headings :
                LET r == move_towards_target(agents, queue_length, i, AllAgents(agents),
                                             dt, [NoDraw EXCEPT !.u = u, !.h = h])
                IN  /\ r.ag.position = agents[i].position
                    /\ r = move_towards_target(agents, queue_length, i,
                                               AllAgents(agents), dt,
                                               [NoDraw EXCEPT !.u = u])

\* C35: a call of move_towards_target on a SHOPPING or PAYING agent (the
\* agent update_loop is about to call, any leader of a group) changes
\* neither its position nor its heading; a call on any agent (one iteration
\* of update_loop) changes no other agent (position, state, timers, zone
\* lists); outside the agent it changes nothing but the queue_length of
\* checkout zones.
C35_Frame ==
    [][/\ \A i \in Agents :
             /\ agents[i].state \in {"SHOPPING", "PAYING"}
             /\ sim.driver = "update_loop" => i = cursor
             => C35_Still(i)
       /\ (sim.driver = "update_loop" /\ Len(agents') = Len(agents))
          => /\ \A j \in Agents \ {cursor} : agents'[j] = agents[j]
             /\ agents[cursor].state \in {"SHOPPING", "PAYING"}
                => agents'[cursor].position = agents[cursor].position
             /\ UNCHANGED <<max_queue_length, center, store_zones, cash_zones,
                            exit_points, sim>>]_vars

\* with another agent in the store, an agent has been ticked while PAYING
\* away from its queue slot, and stands where it stood
C35_Witness ==
    \E i \in Agents :
        /\ Len(agents) >= 2
        /\ agents[i].state = "PAYING"
        /\ agents[i].payment_time > 0
        /\ agents[i].position # agents[i].destination

\* --------------------------------------------------------------- C36
\* the members of the group gid, in the order of their creation
C36_Members(gid) ==
    SelectSeq(AllAgents(agents), LAMBDA i : agents[i].group_id = gid)

\* the sizes the specification gives the group types: single, pair, family
C36_Size(group_type) ==
    CASE group_type = "INDIVIDUAL" -> 1
      [] group_type = "PAIR" -> 2
      [] group_type = "FAMILY" -> 3
      [] OTHER -> 0

\* C36: every group built by AgentGroup (of one of the three group types)
\* has 1 to 3 members, as many as the size of its group type; all members
\* carry the group's group_id and member i has role i, the leader role 0;
\* the member of a group of size 1 has a behaviour among IMPULSIVE, TARGETED,
\* EXPLORER and BUDGET, the members of a group of size 2 or 3 have behaviour
\* FAMILY; all members of a group share behaviour and budget.
C36_GroupComposition ==
    sim.driver = "group_update"
    => \A gid \in {agents[i].group_id : i \in Agents} :
           LET M == C36_Members(gid)
               n == Len(M)
               leader == agents[M[1]]
           IN  /\ n \in 1..3
               /\ n = C36_Size(leader.group_type)
               /\ \A k \in 1..n :
                     /\ agents[M[k]].role = k - 1
                     /\ agents[M[k]].group_type = leader.group_type
                     /\ agents[M[k]].behavior = leader.behavior
                     /\ agents[M[k]].budget = leader.budget
               /\ n = 1 => leader.behavior \in {"IMPULSIVE", "TARGETED",
                                                 "EXPLORER", "BUDGET"}
               /\ n \in {2, 3} => leader.behavior = "FAMILY"

\* a family of three built by AgentGroup, its leader already on its way
C36_Witness ==
    /\ sim.driver = "group_update"
    /\ Len(agents) = 3
    /\ agents[1].group_type = "FAMILY"
    /\ agents[3].role = 2
    /\ agents[3].group_id = agents[1].group_id
    /\ agents[1].position # sim.start_pos

\* a single BUDGET agent built by AgentGroup
C36_SingleWitness ==
    /\ sim.driver = "group_update"
    /\ Len(agents) = 1
    /\ agents[1].group_type = "INDIVIDUAL"
    /\ agents[1].behavior = "BUDGET"

=============================================================================
